---- MODULE Spec2Model ----
(***************************************************************************)
(* Model of plugins/parsers/enhancedjson/parser.go: the JSON selection,    *)
(* array-expansion, object-flattening, merge and type-conversion engine.   *)
(*                                                                         *)
(* Conventions.                                                            *)
(*  - A Go string is a sequence of one-character strings, so that          *)
(*    strconv.Atoi / ParseFloat / ParseBool, strings.Split and             *)
(*    strings.ReplaceAll are computed character by character.              *)
(*  - A float64 is an integer number of tenths (15 is 1.5).                *)
(*  - A Go interface{} value is a record [t, n, s]: t the dynamic type,    *)
(*    n the numeric payload (bool: 0/1, float64: tenths, int: the          *)
(*    integer), s the string payload.                                      *)
(*  - A gjson.Result is a record [kind, n, s, elems]; kind "missing" is    *)
(*    the zero Result of a query that matched nothing.                     *)
(*  - An error is a string; NoErr is Go's nil error.                       *)
(***************************************************************************)
EXTENDS Integers, Sequences, FiniteSets, TLC

VARIABLES pc, args, ret, input, Configs, ci, t, err, evals

vars == <<pc, args, ret, input, Configs, ci, t, err, evals>>

NoErr == "nil"

(***************************************************************************)
(* Go values (interface{})                                                 *)
(***************************************************************************)
GoNil == [t |-> "nil", n |-> 0, s |-> <<>>]
GoBool(b) == [t |-> "bool", n |-> IF b THEN 1 ELSE 0, s |-> <<>>]
GoFloat(tenths) == [t |-> "float64", n |-> tenths, s |-> <<>>]
GoString(chars) == [t |-> "string", n |-> 0, s |-> chars]
GoInt(i) == [t |-> "int", n |-> i, s |-> <<>>]
GoInt64(i) == [t |-> "int64", n |-> i, s |-> <<>>]

(***************************************************************************)
(* strconv                                                                 *)
(***************************************************************************)
Digits == <<"0", "1", "2", "3", "4", "5", "6", "7", "8", "9">>

IsDigit(c) == \E d \in 1..10 : Digits[d] = c

DigitVal(c) == (CHOOSE d \in 1..10 : Digits[d] = c) - 1

AllDigits(s) == \A i \in 1..Len(s) : IsDigit(s[i])

RECURSIVE DecVal(_)
DecVal(s) == IF s = <<>> THEN 0
             ELSE DecVal(SubSeq(s, 1, Len(s) - 1)) * 10 + DigitVal(s[Len(s)])

RECURSIVE DecChars(_)
DecChars(i) == IF i < 10 THEN <<Digits[i + 1]>>
               ELSE DecChars(i \div 10) \o <<Digits[(i % 10) + 1]>>

HasSign(s) == s # <<>> /\ s[1] \in {"+", "-"}

Unsigned(s) == IF HasSign(s) THEN Tail(s) ELSE s

SignOf(s) == IF s # <<>> /\ s[1] = "-" THEN -1 ELSE 1

\* strconv.Atoi: optional sign, then one or more decimal digits.
Atoi(s) ==
    LET u == Unsigned(s) IN
    IF u # <<>> /\ AllDigits(u)
      THEN [v |-> SignOf(s) * DecVal(u), err |-> NoErr]
      ELSE [v |-> 0, err |-> "invalid syntax"]

DotAt(s) == IF \E i \in 1..Len(s) : s[i] = "."
              THEN CHOOSE i \in 1..Len(s) : s[i] = "." /\ \A j \in 1..(i - 1) : s[j] # "."
              ELSE 0

\* strconv.ParseFloat(s, 64) on plain decimal literals: optional sign, digits,
\* optional point and digits, at least one digit in all. The result is in
\* tenths, so at most one fractional digit is representable.
ParseFloat(s) ==
    LET u == Unsigned(s)
        d == DotAt(u)
        whole == IF d = 0 THEN u ELSE SubSeq(u, 1, d - 1)
        frac == IF d = 0 THEN <<>> ELSE SubSeq(u, d + 1, Len(u))
    IN
    IF AllDigits(whole) /\ AllDigits(frac) /\ Len(whole) + Len(frac) > 0 /\ Len(frac) <= 1
      THEN [v |-> SignOf(s) * (DecVal(whole) * 10 + DecVal(frac)), err |-> NoErr]
      ELSE [v |-> 0, err |-> "invalid syntax"]

BoolTrueLits == {<<"1">>, <<"t">>, <<"T">>, <<"T", "R", "U", "E">>,
                 <<"t", "r", "u", "e">>, <<"T", "r", "u", "e">>}

BoolFalseLits == {<<"0">>, <<"f">>, <<"F">>, <<"F", "A", "L", "S", "E">>,
                  <<"f", "a", "l", "s", "e">>, <<"F", "a", "l", "s", "e">>}

\* strconv.ParseBool
ParseBool(s) ==
    IF s \in BoolTrueLits THEN [v |-> 1, err |-> NoErr]
    ELSE IF s \in BoolFalseLits THEN [v |-> 0, err |-> NoErr]
    ELSE [v |-> 0, err |-> "invalid syntax"]

\* strconv.FormatBool
FormatBool(n) == IF n = 1 THEN <<"t", "r", "u", "e">> ELSE <<"f", "a", "l", "s", "e">>

Abs(i) == IF i < 0 THEN -i ELSE i

\* fmt.Sprint(float64): shortest decimal form, no point for whole numbers.
SprintFloat(tenths) ==
    (IF tenths < 0 THEN <<"-">> ELSE <<>>)
      \o DecChars(Abs(tenths) \div 10)
      \o (IF Abs(tenths) % 10 = 0 THEN <<>> ELSE <<".", Digits[(Abs(tenths) % 10) + 1]>>)

\* int64(float64): truncation toward zero.
TruncFloat(tenths) == IF tenths < 0 THEN -(Abs(tenths) \div 10) ELSE tenths \div 10

(***************************************************************************)
(* Parser.convertType                                                      *)
(***************************************************************************)
Conv(v, e) == [v |-> v, err |-> e]

convertString(in, desiredType) ==
    IF desiredType = "int" THEN
        LET r == Atoi(in.s) IN
        IF r.err # NoErr THEN Conv(GoNil, "Unable to convert to type int") ELSE Conv(GoInt(r.v), NoErr)
    ELSE IF desiredType = "float" THEN
        LET r == ParseFloat(in.s) IN
        IF r.err # NoErr THEN Conv(GoNil, "Unable to convert to type float") ELSE Conv(GoFloat(r.v), NoErr)
    ELSE IF desiredType = "bool" THEN
        LET r == ParseBool(in.s) IN
        IF r.err # NoErr THEN Conv(GoNil, "Unable to convert to type bool") ELSE Conv(GoBool(r.v = 1), NoErr)
    ELSE Conv(in, NoErr)

convertBool(in, desiredType) ==
    IF desiredType = "string" THEN Conv(GoString(FormatBool(in.n)), NoErr)
    ELSE IF desiredType = "int" THEN Conv(GoInt64(IF in.n = 1 THEN 1 ELSE 0), NoErr)
    ELSE Conv(in, NoErr)

convertFloatBugRound(in, desiredType) ==
    IF desiredType = "string" THEN Conv(GoString(SprintFloat(in.n)), NoErr)
    ELSE IF desiredType = "int" THEN Conv(GoInt64((in.n + 5) \div 10), NoErr)
    ELSE IF desiredType = "bool" THEN
        IF in.n = 0 THEN Conv(GoBool(FALSE), NoErr)
        ELSE Conv(GoBool(TRUE), NoErr)
    ELSE Conv(in, NoErr)

convertFloat(in, desiredType) ==
    IF desiredType = "string" THEN Conv(GoString(SprintFloat(in.n)), NoErr)
    ELSE IF desiredType = "int" THEN Conv(GoInt64(TruncFloat(in.n)), NoErr)
    ELSE IF desiredType = "bool" THEN
        IF in.n = 0 THEN Conv(GoBool(FALSE), NoErr)
        ELSE IF in.n = 10 THEN Conv(GoBool(TRUE), NoErr)
        ELSE Conv(GoNil, "Unable to convert to type bool")
    ELSE Conv(in, NoErr)

\* The type switch comes first: a value that is neither string, bool nor
\* float64 (a JSON null arrives as nil) is an error whatever desiredType is.
convertType(in, desiredType) ==
    IF in.t = "string" THEN
        IF desiredType # "string" THEN convertString(in, desiredType) ELSE Conv(in, NoErr)
    ELSE IF in.t = "bool" THEN
        IF desiredType # "bool" THEN convertBool(in, desiredType) ELSE Conv(in, NoErr)
    ELSE IF in.t = "float64" THEN
        IF desiredType # "float" THEN convertFloat(in, desiredType) ELSE Conv(in, NoErr)
    ELSE Conv(GoNil, "unknown format")

(***************************************************************************)
(* gjson.Result                                                            *)
(***************************************************************************)
JMissing == [kind |-> "missing", n |-> 0, s |-> <<>>, elems |-> <<>>]
JNull == [kind |-> "null", n |-> 0, s |-> <<>>, elems |-> <<>>]
JBool(b) == [kind |-> "bool", n |-> IF b THEN 1 ELSE 0, s |-> <<>>, elems |-> <<>>]
JNum(tenths) == [kind |-> "number", n |-> tenths, s |-> <<>>, elems |-> <<>>]
JStr(chars) == [kind |-> "string", n |-> 0, s |-> chars, elems |-> <<>>]
JArr(es) == [kind |-> "array", n |-> 0, s |-> <<>>, elems |-> es]
JObj(kvs) == [kind |-> "object", n |-> 0, s |-> <<>>, elems |-> kvs]
KV(k, v) == [key |-> k, val |-> v]

IsObject(r) == r.kind = "object"
IsArray(r) == r.kind = "array"
\* Result.Exists: a JSON null exists, only the zero Result does not.
Exists(r) == r.kind # "missing"

\* Result.Value() of a result that is neither an array nor an object.
Value(r) ==
    IF r.kind = "bool" THEN GoBool(r.n = 1)
    ELSE IF r.kind = "number" THEN GoFloat(r.n)
    ELSE IF r.kind = "string" THEN GoString(r.s)
    ELSE GoNil

\* Result.ForEach: the (key, value) pairs the iterator is called with. A
\* missing result has none, a scalar is visited once with an empty key, an
\* array's elements are visited with an empty key.
ForEach(r) ==
    IF ~Exists(r) THEN <<>>
    ELSE IF IsObject(r) THEN r.elems
    ELSE IF IsArray(r) THEN [i \in 1..Len(r.elems) |-> KV(<<>>, r.elems[i])]
    ELSE <<KV(<<>>, r)>>

\* strings.Split(s, "."): the pieces between the dots.
RECURSIVE Split(_)
Split(s) ==
    LET d == DotAt(s) IN
    IF d = 0 THEN <<s>> ELSE <<SubSeq(s, 1, d - 1)>> \o Split(SubSeq(s, d + 1, Len(s)))

\* strings.ReplaceAll(s, " ", "")
RECURSIVE StripSpaces(_)
StripSpaces(s) ==
    IF s = <<>> THEN <<>>
    ELSE IF s[1] = " " THEN StripSpaces(Tail(s))
    ELSE <<s[1]>> \o StripSpaces(Tail(s))

LookupKey(r, k) ==
    IF IsObject(r) /\ \E i \in 1..Len(r.elems) : r.elems[i].key = k
      THEN r.elems[CHOOSE i \in 1..Len(r.elems) :
                     r.elems[i].key = k /\ \A j \in 1..(i - 1) : r.elems[j].key # k].val
      ELSE JMissing

RECURSIVE GetPath(_, _)
GetPath(r, segs) ==
    IF segs = <<>> THEN r
    ELSE IF ~IsObject(r) THEN JMissing
    ELSE GetPath(LookupKey(r, Head(segs)), Tail(segs))

\* gjson.GetBytes(input, query) for a dotted path of object keys.
GetBytes(doc, query) == GetPath(doc, Split(query))

(***************************************************************************)
(* telegraf.Metric                                                         *)
(***************************************************************************)
\* metric.New(name, no tags, no fields, time). Metrics are held by pointer;
\* site names the metric.New call that allocated this one ("basic": line 111,
\* "element": line 195, "root": line 268), which is all the model needs of
\* pointer identity.
NewMetric(name, site) == [name |-> name, fields |-> <<>>, site |-> site]

Field(k, v) == [Key |-> k, Value |-> v]

HasField(m, k) == \E i \in 1..Len(m.fields) : m.fields[i].Key = k

FieldValue(m, k) == m.fields[CHOOSE i \in 1..Len(m.fields) : m.fields[i].Key = k].Value

\* Metric.AddField: overwrite the field of that key, else append; an int is
\* stored as int64.
AddField(m, k, v) ==
    LET w == IF v.t = "int" THEN GoInt64(v.n) ELSE v IN
    IF HasField(m, k)
      THEN [m EXCEPT !.fields = [i \in 1..Len(m.fields) |->
                IF m.fields[i].Key = k THEN Field(k, w) ELSE m.fields[i]]]
      ELSE [m EXCEPT !.fields = Append(m.fields, Field(k, w))]

\* for _, f := range src.FieldList() { dst.AddField(f.Key, f.Value) }
RECURSIVE AddFields(_, _)
AddFields(dst, fs) ==
    IF fs = <<>> THEN dst
    ELSE AddFields(AddField(dst, Head(fs).Key, Head(fs).Value), Tail(fs))

MetricNode(name, type, m, r) ==
    [RootFieldName |-> name, DesiredType |-> type, Metric |-> m, Result |-> r]

(***************************************************************************)
(* Parser.expandArray                                                      *)
(***************************************************************************)
Expanded(rows, e) == [rows |-> rows, err |-> e]

\* Bind v once: F's parameter is the local variable holding a call's result.
With(v, F(_)) == F(v)

\* What one call of a ForEach callback did: the rows it appended, the value
\* it left in the enclosing function's err variable, and its return value
\* (false stops the iteration).
Visited(rows, e, more) == [rows |-> rows, err |-> e, more |-> more]

RECURSIVE expandArray(_, _)

\* The ForEach callback of expandArray (lines 188-237). It assigns the outer
\* err only for an object element; the err of a failed nested expansion or
\* conversion is a new variable of the inner block, so those stop the
\* iteration and leave the outer err nil. The nested node and the row are
\* built without DesiredType.
expandElement(result, metricName, val) ==
    With(AddFields(NewMetric(metricName, "element"), result.Metric.fields), LAMBDA m :
      IF IsObject(val) THEN Visited(<<>>, "encountered object", FALSE)
      ELSE IF IsArray(val) THEN
        With(expandArray(MetricNode(result.RootFieldName, "", m, val), metricName), LAMBDA r :
          IF r.err # NoErr THEN Visited(<<>>, NoErr, FALSE)
          ELSE Visited(r.rows, NoErr, TRUE))
      ELSE
        With(convertType(Value(val), result.DesiredType), LAMBDA c :
          IF c.err # NoErr THEN Visited(<<>>, NoErr, FALSE)
          ELSE Visited(<<MetricNode(result.RootFieldName, "",
                                    AddFields(AddField(m, result.RootFieldName, c.v),
                                              result.Metric.fields),
                                    val)>>, NoErr, TRUE)))

\* result.ForEach over the elements i.. of the array, results being the rows
\* appended so far.
RECURSIVE expandEach(_, _, _, _)
expandEach(result, metricName, i, results) ==
    IF i > Len(result.Result.elems) THEN Expanded(results, NoErr)
    ELSE
      With(expandElement(result, metricName, result.Result.elems[i]), LAMBDA v :
        IF v.more THEN expandEach(result, metricName, i + 1, results \o v.rows)
        ELSE Expanded(results \o v.rows, v.err))

expandArray(result, metricName) ==
    IF IsObject(result.Result) THEN Expanded(<<>>, "encountered object")
    ELSE IF IsArray(result.Result) THEN
      With(expandEach(result, metricName, 1, <<>>), LAMBDA it :
        IF it.err # NoErr THEN Expanded(<<>>, it.err) ELSE Expanded(it.rows, NoErr))
    ELSE IF Exists(result.Result) THEN
      With(convertType(Value(result.Result), result.DesiredType), LAMBDA c :
        IF c.err # NoErr THEN Expanded(<<>>, c.err)
        ELSE Expanded(<<[result EXCEPT !.Metric =
                           AddField(result.Metric, result.RootFieldName, c.v)]>>, NoErr))
    ELSE Expanded(<<>>, NoErr)

(***************************************************************************)
(* Parser.combineObject                                                    *)
(***************************************************************************)
\* metrics: the rows appended so far; root: the state of result.Metric, the
\* one metric every nested call shares by reference.
Combined(metrics, root) == [metrics |-> metrics, root |-> root, err |-> NoErr]

\* What one call of combineObject's callback did: the rows it appended, the
\* state it left the shared metric in, and its return value.
Flattened(rows, root, more) == [rows |-> rows, root |-> root, more |-> more]

RECURSIVE combineObject(_, _, _)

\* The ForEach callback of combineObject (lines 291-342), root being the
\* shared metric as the call finds it. Every failure returns false from the
\* callback and is recorded nowhere.
combineChild(result, nameMap, typeMap, key, val, root) ==
    IF IsArray(val) THEN
      With(expandArray(MetricNode(key, "", root, val), root.name), LAMBDA m :
        IF m.err # NoErr THEN Flattened(<<>>, root, FALSE)
        ELSE Flattened(m.rows, root, TRUE))
    ELSE IF IsObject(val) THEN
      With(combineObject(MetricNode(key, "", root, val), nameMap, typeMap), LAMBDA sub :
        IF sub.err # NoErr THEN Flattened(<<>>, sub.root, FALSE)
        ELSE Flattened(<<>>, sub.root, TRUE))
    ELSE
      With(IF key \in DOMAIN typeMap
             THEN convertType(Value(val), typeMap[key])
             ELSE Conv(Value(val), NoErr),
           LAMBDA c :
        IF c.err # NoErr THEN Flattened(<<>>, root, FALSE)
        ELSE Flattened(<<>>,
                       AddField(root,
                                IF key # <<>>
                                  THEN StripSpaces(IF key \in DOMAIN nameMap
                                                     THEN nameMap[key] ELSE key)
                                  ELSE result.RootFieldName,
                                c.v),
                       TRUE))

\* result.ForEach over the pairs i.. of kvs.
RECURSIVE combineEach(_, _, _, _, _, _)
combineEach(result, nameMap, typeMap, kvs, i, acc) ==
    IF i > Len(kvs) THEN acc
    ELSE
      With(combineChild(result, nameMap, typeMap, kvs[i].key, kvs[i].val, acc.root), LAMBDA v :
        IF v.more
          THEN combineEach(result, nameMap, typeMap, kvs, i + 1,
                           Combined(acc.metrics \o v.rows, v.root))
          ELSE Combined(acc.metrics \o v.rows, v.root))

combineObjectBugSkipEmpty(result, nameMap, typeMap) ==
    With(combineEach(result, nameMap, typeMap, ForEach(result.Result), 1,
                     Combined(<<>>, result.Metric)),
         LAMBDA it :
      Combined(IF it.root.fields = <<>> THEN it.metrics
               ELSE Append(it.metrics, [result EXCEPT !.Metric = it.root]), it.root))

\* Lines 344-346 add the node itself, whatever the iteration did, and return
\* a nil error.
combineObject(result, nameMap, typeMap) ==
    With(combineEach(result, nameMap, typeMap, ForEach(result.Result), 1,
                     Combined(<<>>, result.Metric)),
         LAMBDA it :
      Combined(Append(it.metrics, [result EXCEPT !.Metric = it.root]), it.root))

(***************************************************************************)
(* Parser.processObjectFields                                              *)
(***************************************************************************)
Last(s) == s[Len(s)]

Metrics(nodes) == [i \in 1..Len(nodes) |-> nodes[i].Metric]

\* t: the metrics; evals: the number of queries evaluated.
Processed(ms, e, n) == [t |-> ms, err |-> e, evals |-> n]

\* The loop body of lines 258-282 for one rule.
objectField(metricName, field, doc) ==
    combineObject(MetricNode(Last(Split(field.Query)), "", NewMetric(metricName, "root"),
                             GetBytes(doc, field.Query)),
                  field.NameMap, field.TypeMap)

RECURSIVE objectFieldsFrom(_, _, _, _, _)
objectFieldsFrom(metricName, objectFields, doc, i, acc) ==
    IF i > Len(objectFields) THEN Processed(acc, NoErr, Len(objectFields))
    ELSE
      With(objectField(metricName, objectFields[i], doc), LAMBDA r :
        IF r.err # NoErr THEN Processed(<<>>, r.err, i)
        ELSE objectFieldsFrom(metricName, objectFields, doc, i + 1, acc \o Metrics(r.metrics)))

processObjectFields(metricName, objectFields, doc) ==
    objectFieldsFrom(metricName, objectFields, doc, 1, <<>>)

(***************************************************************************)
(* Parser.processBasicFields                                               *)
(***************************************************************************)
\* The row-group of one rule: the loop body of lines 91-141.
basicField(metricName, field, doc) ==
    With(GetBytes(doc, field.Query), LAMBDA result :
      IF IsObject(result) THEN Expanded(<<>>, "use object_field")
      ELSE
        With(expandArray(MetricNode(IF field.Name = <<>> THEN Last(Split(field.Query))
                                                          ELSE field.Name,
                                    field.Type, NewMetric(metricName, "basic"), result),
                         metricName),
             LAMBDA nodes :
          IF nodes.err # NoErr THEN Expanded(<<>>, nodes.err)
          ELSE Expanded(Metrics(nodes.rows), NoErr)))

\* sort.Slice by group length. Below 12 groups Go sorts by insertion, which
\* keeps groups of equal length in rule order.
RECURSIVE InsertByLen(_, _)
InsertByLen(sorted, g) ==
    IF sorted = <<>> THEN <<g>>
    ELSE IF Len(g) < Len(Last(sorted))
      THEN Append(InsertByLen(SubSeq(sorted, 1, Len(sorted) - 1), g), Last(sorted))
      ELSE Append(sorted, g)

RECURSIVE SortByLen(_)
SortByLen(groups) ==
    IF groups = <<>> THEN <<>>
    ELSE InsertByLen(SortByLen(SubSeq(groups, 1, Len(groups) - 1)), Last(groups))

\* for _, p := range prev { for _, c := range cur { copy p's fields into c } }
RECURSIVE CrossCopy(_, _)
CrossCopy(prev, cur) ==
    IF prev = <<>> THEN cur
    ELSE CrossCopy(Tail(prev), [j \in 1..Len(cur) |-> AddFields(cur[j], Head(prev).fields)])

\* Lines 150-167: fold each group into the next, in place.
RECURSIVE Combine(_, _)
Combine(groups, i) ==
    IF i > Len(groups) THEN groups
    ELSE Combine([groups EXCEPT ![i] = CrossCopy(groups[i - 1], groups[i])], i + 1)

\* Lines 169-173: the rows of the last group.
LastGroup(groups) == IF Len(groups) > 0 THEN Last(groups) ELSE <<>>

mergeFieldsBugNoSort(metricFields) ==
    LastGroup(IF Len(metricFields) > 1 THEN Combine(metricFields, 2) ELSE metricFields)

\* Lines 144-175: sort, fold, return the last group.
mergeFields(metricFields) ==
    With(SortByLen(metricFields), LAMBDA sorted :
      LastGroup(IF Len(sorted) > 1 THEN Combine(sorted, 2) ELSE sorted))

RECURSIVE basicFieldsFrom(_, _, _, _, _)
basicFieldsFrom(metricName, basicFields, doc, i, metricFields) ==
    IF i > Len(basicFields)
      THEN Processed(mergeFields(metricFields), NoErr, Len(basicFields))
    ELSE
      With(basicField(metricName, basicFields[i], doc), LAMBDA g :
        IF g.err # NoErr THEN Processed(<<>>, g.err, i)
        ELSE basicFieldsFrom(metricName, basicFields, doc, i + 1, Append(metricFields, g.rows)))

processBasicFields(metricName, basicFields, doc) ==
    basicFieldsFrom(metricName, basicFields, doc, 1, <<>>)

(***************************************************************************)
(* Bounds and input sets                                                   *)
(***************************************************************************)
MaxTenths == 25
MaxInner == 2
MaxOuter == 2
MaxKeys == 2
MaxObjRules == 2
MaxRows == 3
MaxRules == 3
MaxConfigs == 2

SeqsUpTo(S, n) == UNION {[1..k -> S] : k \in 0..n}

Types == {"", "string", "int", "float", "bool", "duration"}

StrVals == {<<>>, <<"x">>, <<"4", "2">>, <<"-", "7">>, <<"+", "3">>, <<"1", ".", "5">>,
            <<"-", "0", ".", "5">>, <<"2", ".">>, <<".", "5">>, <<"-">>, <<"1", " ">>,
            <<"1">>, <<"0">>, <<"t">>, <<"F">>, <<"t", "r", "u", "e">>,
            <<"F", "a", "l", "s", "e">>, <<"T", "R", "U", "E">>, <<"y", "e", "s">>}

\* What Result.Value() can hand to convertType.
GoValues == {GoNil, GoBool(TRUE), GoBool(FALSE)}
              \cup {GoFloat(n) : n \in (-MaxTenths)..MaxTenths}
              \cup {GoString(s) : s \in StrVals}

Idle == /\ input = [valid |-> TRUE, doc |-> JMissing]
        /\ Configs = <<>>
        /\ ci = 0
        /\ t = <<>>
        /\ err = NoErr
        /\ evals = 0

ParseIdle == UNCHANGED <<input, Configs, ci, t, err, evals>>

(***************************************************************************)
(* SpecConvert: convertType applied to every value and declared type       *)
(***************************************************************************)
InitConvert ==
    /\ Idle
    /\ pc = "call"
    /\ args \in [input : GoValues, desiredType : Types]
    /\ ret = Conv(GoNil, NoErr)

ConvertCall ==
    /\ pc = "call"
    /\ ret' = convertType(args.input, args.desiredType)
    /\ pc' = "done"
    /\ UNCHANGED args
    /\ ParseIdle

NextConvert == ConvertCall

SpecConvert == InitConvert /\ [][NextConvert]_vars

(***************************************************************************)
(* SpecExpand: expandArray applied to a basic-field query result           *)
(***************************************************************************)
ElemScalars == {JNum(10), JStr(<<"7">>), JStr(<<"x">>), JNull}

InnerArrays == {JArr(es) : es \in SeqsUpTo(ElemScalars \cup {JObj(<<>>)}, MaxInner)}

OuterArrays == {JArr(es) : es \in SeqsUpTo(ElemScalars \cup {JObj(<<>>)} \cup InnerArrays, MaxOuter)}

\* Three levels: an array nested in an array nested in an array.
DeepArrays == {JArr(<<JArr(<<a>>)>>) : a \in InnerArrays}

ExpandResults == OuterArrays \cup DeepArrays \cup ElemScalars \cup {JMissing, JObj(<<>>)}

InitExpand ==
    /\ Idle
    /\ pc = "call"
    /\ \E r \in ExpandResults, ty \in {"", "int", "string"} :
         args = [result |-> MetricNode(<<"v">>, ty, NewMetric("m", "basic"), r), metricName |-> "m"]
    /\ ret = Expanded(<<>>, NoErr)

ExpandCall ==
    /\ pc = "call"
    /\ ret' = expandArray(args.result, args.metricName)
    /\ pc' = "done"
    /\ UNCHANGED args
    /\ ParseIdle

NextExpand == ExpandCall

SpecExpand == InitExpand /\ [][NextExpand]_vars

(***************************************************************************)
(* SpecObject: processObjectFields applied to a list of object rules       *)
(***************************************************************************)
Doc(kvs) == JObj(kvs)

ChildKeys == <<<<"a">>, <<"i", "t", "e", "m", "s">>, <<"b">>, <<"d">>>>

ChildVals == {JNum(10), JStr(<<"x">>), JNull,
              JArr(<<JNum(100), JNum(200)>>),
              JArr(<<JNum(100), JNull, JNum(200)>>),
              JArr(<<JArr(<<JNum(100)>>), JArr(<<JNum(200)>>)>>),
              JArr(<<JNum(100), JObj(<<>>)>>),
              JObj(<<KV(<<"c">>, JStr(<<"x">>)), KV(<<"i", "t", "e", "m", "s">>, JNum(50))>>),
              JObj(<<KV(<<"c">>, JArr(<<JNum(100)>>))>>)}

\* Objects of up to MaxKeys children, the i-th under the i-th key.
ObjResults == {JObj([i \in 1..Len(vs) |-> KV(ChildKeys[i], vs[i])]) :
                 vs \in SeqsUpTo(ChildVals, MaxKeys)}

ObjectField(q, nm, tm) == [Query |-> q, NameMap |-> nm, TypeMap |-> tm]

NoMap == <<>>

ObjectRules == {ObjectField(<<"o">>, NoMap, NoMap),
                ObjectField(<<"o">>, <<"a">> :> <<"i", "t", " ", "e", "m", "s">>,
                                     (<<"a">> :> "int") @@ (<<"c">> :> "int")),
                ObjectField(<<"z">>, NoMap, NoMap),
                ObjectField(<<"o", ".", "a">>, NoMap, NoMap)}

InitObject ==
    /\ Idle
    /\ pc = "call"
    /\ \E o \in ObjResults, fs \in SeqsUpTo(ObjectRules, MaxObjRules) :
         args = [metricName |-> "m", objectFields |-> fs, doc |-> Doc(<<KV(<<"o">>, o)>>)]
    /\ ret = Processed(<<>>, NoErr, 0)

ObjectCall ==
    /\ pc = "call"
    /\ ret' = processObjectFields(args.metricName, args.objectFields, args.doc)
    /\ pc' = "done"
    /\ UNCHANGED args
    /\ ParseIdle

NextObject == ObjectCall

SpecObject == InitObject /\ [][NextObject]_vars

(***************************************************************************)
(* SpecBasic: processBasicFields applied to a list of basic rules          *)
(***************************************************************************)
\* The values under key number k: a scalar, arrays of 0..MaxRows numbers, a
\* nested array of three numbers, an object, and two strings of which only
\* the first is an integer.
BasicVals(k) ==
    {JNum(1000 * k), JObj(<<>>),
     JArr(<<JArr(<<JNum(1000 * k + 10), JNum(1000 * k + 20)>>), JArr(<<JNum(1000 * k + 30)>>)>>),
     JArr(<<JStr(<<"7">>), JStr(<<"x">>)>>)}
      \cup {JArr([i \in 1..n |-> JNum(1000 * k + 10 * i)]) : n \in 0..MaxRows}

BasicField(q, name, type) == [Query |-> q, Name |-> name, Type |-> type]

BasicRules == {BasicField(<<"a">>, <<>>, ""),
               BasicField(<<"b">>, <<>>, ""),
               BasicField(<<"b">>, <<"n">>, "int"),
               BasicField(<<"z">>, <<>>, ""),
               BasicField(<<"a">>, <<"b">>, "")}

InitBasic ==
    /\ Idle
    /\ pc = "call"
    /\ \E va \in BasicVals(1), vb \in BasicVals(2), fs \in SeqsUpTo(BasicRules, MaxRules) :
         args = [metricName |-> "m", basicFields |-> fs,
                 doc |-> Doc(<<KV(<<"a">>, va), KV(<<"b">>, vb)>>)]
    /\ ret = Processed(<<>>, NoErr, 0)

BasicCall ==
    /\ pc = "call"
    /\ ret' = processBasicFields(args.metricName, args.basicFields, args.doc)
    /\ pc' = "done"
    /\ UNCHANGED args
    /\ ParseIdle

NextBasic == BasicCall

SpecBasic == InitBasic /\ [][NextBasic]_vars

(***************************************************************************)
(* Spec: Parser.Parse, one action per step of its loop                     *)
(***************************************************************************)
ParseDocs ==
    {Doc(<<KV(<<"a">>, va), KV(<<"b">>, JNum(50)), KV(<<"o">>, vo)>>) :
       va \in {JArr(<<JNum(10), JNum(20)>>), JNum(10), JObj(<<>>)},
       vo \in {JObj(<<KV(<<"c">>, JNum(10)), KV(<<"i", "t", "e", "m", "s">>, JArr(<<JNum(100), JNum(200)>>))>>),
               JObj(<<KV(<<"c">>, JStr(<<"x">>))>>),
               JArr(<<>>)}}

\* An input that is not valid JSON still has text gjson's lenient Get would
\* answer queries on: doc is what the queries would see.
Inputs == [valid : BOOLEAN, doc : ParseDocs]

Config(name, bfs, ofs) == [MetricName |-> name, BasicFields |-> bfs, ObjectFields |-> ofs]

ParseConfigs ==
    {Config(name, bfs, ofs) :
       name \in {"cpu", "mem"},
       bfs \in {<<>>, <<BasicField(<<"a">>, <<>>, ""), BasicField(<<"b">>, <<>>, "int")>>},
       ofs \in {<<>>, <<ObjectField(<<"o">>, NoMap, NoMap)>>}}

Init ==
    /\ pc = "start"
    /\ input \in Inputs
    /\ Configs \in SeqsUpTo(ParseConfigs, MaxConfigs)
    /\ ci = 1
    /\ t = <<>>
    /\ err = NoErr
    /\ evals = 0
    /\ args = <<>>
    /\ ret = <<>>

ParseValidateBugNoCheck ==
    /\ pc = "start"
    /\ pc' = "basic"
    /\ UNCHANGED <<args, ret, input, Configs, ci, t, err, evals>>

\* Lines 57-60: only valid JSON is supported.
ParseValidate ==
    /\ pc = "start"
    /\ IF ~input.valid
         THEN /\ err' = "Invalid JSON provided, unable to parse"
              /\ pc' = "done"
         ELSE /\ err' = err
              /\ pc' = "basic"
    /\ UNCHANGED <<args, ret, input, Configs, ci, t, evals>>

\* What Parse does with the result r of a processor: give up with its error,
\* or append its metrics and go on at pc next.
ParseAppend(r, next) ==
    /\ evals' = evals + r.evals
    /\ IF r.err # NoErr
         THEN /\ err' = r.err
              /\ t' = <<>>
              /\ pc' = "done"
         ELSE /\ err' = err
              /\ t' = t \o r.t
              /\ pc' = next

\* Lines 66-72.
ParseBasic ==
    /\ pc = "basic"
    /\ ci <= Len(Configs)
    /\ ParseAppend(processBasicFields(Configs[ci].MetricName, Configs[ci].BasicFields,
                                      input.doc), "object")
    /\ UNCHANGED <<args, ret, input, Configs, ci>>

\* Lines 74-80, and the loop's step to the next config.
ParseObject ==
    /\ pc = "object"
    /\ ParseAppend(processObjectFields(Configs[ci].MetricName, Configs[ci].ObjectFields,
                                       input.doc), "basic")
    /\ ci' = ci + 1
    /\ UNCHANGED <<args, ret, input, Configs>>

\* Line 83.
ParseReturn ==
    /\ pc = "basic"
    /\ ci > Len(Configs)
    /\ pc' = "done"
    /\ UNCHANGED <<args, ret, input, Configs, ci, t, err, evals>>

Next == ParseValidate \/ ParseBasic \/ ParseObject \/ ParseReturn

Spec == Init /\ [][Next]_vars

(***************************************************************************)
(* Properties of convertType (SpecConvert)                                 *)
(***************************************************************************)
IsIntegral(v) == v.t \in {"int", "int64"}

\* The same Go value, an int and an int64 of the same number being one value
\* once stored in a metric.
SameValue(a, b) ==
    /\ a.n = b.n
    /\ a.s = b.s
    /\ (a.t = b.t \/ (IsIntegral(a) /\ IsIntegral(b)))

\* The decimal integers, decimal numbers (in tenths) and boolean literals
\* among StrVals, written out by hand.
IntLiterals == {<<<<"4", "2">>, 42>>, <<<<"-", "7">>, -7>>, <<<<"+", "3">>, 3>>,
                <<<<"1">>, 1>>, <<<<"0">>, 0>>}

FloatLiterals == {<<<<"4", "2">>, 420>>, <<<<"-", "7">>, -70>>, <<<<"+", "3">>, 30>>,
                  <<<<"1", ".", "5">>, 15>>, <<<<"-", "0", ".", "5">>, -5>>,
                  <<<<"2", ".">>, 20>>, <<<<".", "5">>, 5>>, <<<<"1">>, 10>>, <<<<"0">>, 0>>}

BoolLiterals == {<<<<"1">>, 1>>, <<<<"t">>, 1>>, <<<<"t", "r", "u", "e">>, 1>>,
                 <<<<"T", "R", "U", "E">>, 1>>, <<<<"0">>, 0>>, <<<<"F">>, 0>>,
                 <<<<"F", "a", "l", "s", "e">>, 0>>}

\* r is the parsed value of s according to the table, or an error when the
\* table has no entry for s.
ParsedBy(table, s, r, type) ==
    IF \E e \in table : e[1] = s
      THEN /\ r.err = NoErr
           /\ \E e \in table : e[1] = s /\ r.v.n = e[2]
           /\ r.v.t = type \/ (type = "int" /\ IsIntegral(r.v))
      ELSE r.err # NoErr

Unchanged(in, r) == r.err = NoErr /\ r.v = in

\* k is x (in tenths) with its fractional part dropped.
IsTruncationOf(k, x) ==
    IF x >= 0 THEN 10 * k <= x /\ x < 10 * k + 10
    ELSE 10 * k >= x /\ x > 10 * k - 10

MatrixAgrees(in, type, r) ==
    IF in.t = "string" THEN
        IF type = "int" THEN ParsedBy(IntLiterals, in.s, r, "int")
        ELSE IF type = "float" THEN ParsedBy(FloatLiterals, in.s, r, "float64")
        ELSE IF type = "bool" THEN ParsedBy(BoolLiterals, in.s, r, "bool")
        ELSE Unchanged(in, r)
    ELSE IF in.t = "bool" THEN
        IF type = "string" THEN
            /\ r.err = NoErr
            /\ r.v = GoString(IF in.n = 1 THEN <<"t", "r", "u", "e">> ELSE <<"f", "a", "l", "s", "e">>)
        ELSE IF type = "int" THEN
            r.err = NoErr /\ IsIntegral(r.v) /\ r.v.n = in.n
        ELSE Unchanged(in, r)
    ELSE
        IF type = "int" THEN
            r.err = NoErr /\ IsIntegral(r.v) /\ IsTruncationOf(r.v.n, in.n)
        ELSE IF type = "bool" THEN
            IF in.n = 0 THEN r.err = NoErr /\ r.v = GoBool(FALSE)
            ELSE IF in.n = 10 THEN r.err = NoErr /\ r.v = GoBool(TRUE)
            ELSE r.err # NoErr
        ELSE IF type = "string" THEN
            /\ r.err = NoErr
            /\ r.v.t = "string"
            /\ ParseFloat(r.v.s) = [v |-> in.n, err |-> NoErr]
            /\ IsDigit(Last(r.v.s))
            /\ (DotAt(r.v.s) # 0 => Last(r.v.s) # "0")
        ELSE Unchanged(in, r)

\* C7: with an empty declared type convertType returns its input unchanged
\* and no error, for every value a query result can hand it: string, boolean,
\* number and JSON null.
C7_EmptyTypeReturnsInput ==
    (pc = "done" /\ args.desiredType = "") => Unchanged(args.input, ret)

\* C8: for a string, boolean or number and a non-empty declared type,
\* convertType agrees with the conversion matrix: the listed conversions give
\* the converted value or an error, every other pair returns the input.
C8_ConversionMatrix ==
    (pc = "done" /\ args.input.t # "nil" /\ args.desiredType # "")
        => MatrixAgrees(args.input, args.desiredType, ret)

C8_Witness ==
    /\ pc = "done"
    /\ args.input = GoFloat(-15)
    /\ args.desiredType = "int"
    /\ ret = Conv(GoInt64(-1), NoErr)

(***************************************************************************)
(* Properties of expandArray (SpecExpand)                                  *)
(***************************************************************************)
RECURSIVE ContainsObject(_)
ContainsObject(r) ==
    IsArray(r) /\ \E i \in 1..Len(r.elems) : IsObject(r.elems[i]) \/ ContainsObject(r.elems[i])

\* The innermost scalars of an array, in document order.
RECURSIVE Leaves(_)
RECURSIVE LeavesOf(_)
LeavesOf(es) == IF es = <<>> THEN <<>> ELSE Leaves(Head(es)) \o LeavesOf(Tail(es))
Leaves(r) == IF IsArray(r) THEN LeavesOf(r.elems) ELSE <<r>>

Converts(val, type) == convertType(Value(val), type).err = NoErr

\* C1: a basic-field rule whose array result holds an object element, at any
\* depth, fails: expandArray returns an error and no rows.
C1_ObjectElementFails ==
    (pc = "done" /\ IsArray(args.result.Result) /\ ContainsObject(args.result.Result))
        => (ret.err # NoErr /\ ret.rows = <<>>)

\* C2: when the conversion of a scalar element of the array to the declared
\* type fails, expandArray returns that error and no rows, never the rows of
\* the elements before it with a nil error.
C2_FailedConversionAborts ==
    (/\ pc = "done"
     /\ IsArray(args.result.Result)
     /\ \E i \in 1..Len(args.result.Result.elems) :
          LET e == args.result.Result.elems[i] IN
          ~IsArray(e) /\ ~IsObject(e) /\ ~Converts(e, args.result.DesiredType))
        => (ret.err # NoErr /\ ret.rows = <<>>)

\* C5: an array of scalars nested to any depth expands to one row per
\* innermost scalar, in document order, each holding that scalar converted to
\* the rule's declared type, at every depth.
C5_OneConvertedRowPerLeaf ==
    LET r == args.result.Result
        type == args.result.DesiredType
        leaves == Leaves(r)
    IN
    (/\ pc = "done"
     /\ IsArray(r)
     /\ ~ContainsObject(r)
     /\ \A i \in 1..Len(leaves) : Converts(leaves[i], type))
        => /\ ret.err = NoErr
           /\ Len(ret.rows) = Len(leaves)
           /\ \A i \in 1..Len(leaves) :
                /\ HasField(ret.rows[i].Metric, args.result.RootFieldName)
                /\ SameValue(FieldValue(ret.rows[i].Metric, args.result.RootFieldName),
                             convertType(Value(leaves[i]), type).v)

(***************************************************************************)
(* Properties of processObjectFields (SpecObject)                          *)
(***************************************************************************)
IsScalar(r) == Exists(r) /\ ~IsArray(r) /\ ~IsObject(r)

QueryResult(i) == GetBytes(args.doc, args.objectFields[i].Query)

\* An array whose expansion cannot succeed: an object element at some depth,
\* or an innermost scalar that does not convert.
ArrayFails(val) ==
    \/ ContainsObject(val)
    \/ \E i \in 1..Len(Leaves(val)) : ~Converts(Leaves(val)[i], "")

\* Some child of r, at any depth of nested objects, fails.
RECURSIVE FlattenFails(_, _)
FlattenFails(r, typeMap) ==
    \E i \in 1..Len(ForEach(r)) :
      LET key == ForEach(r)[i].key
          val == ForEach(r)[i].val
      IN \/ IsScalar(val) /\ key \in DOMAIN typeMap /\ ~Converts(val, typeMap[key])
         \/ IsArray(val) /\ ArrayFails(val)
         \/ IsObject(val) /\ FlattenFails(val, typeMap)

\* C3: when a child fails during object flattening, at any depth (a typeMap
\* conversion, the expansion of an array child, a nested object), the call
\* returns an error and no metric: no partially filled root is emitted.
C3_FlattenFailureIsReturned ==
    (/\ pc = "done"
     /\ \E i \in 1..Len(args.objectFields) :
          FlattenFails(QueryResult(i), args.objectFields[i].TypeMap))
        => (ret.err # NoErr /\ ret.t = <<>>)

\* The output field name of a scalar child.
OutputName(field, key) ==
    StripSpaces(IF key \in DOMAIN field.NameMap THEN field.NameMap[key] ELSE key)

\* The converted value of a scalar child.
OutputValue(field, kv) ==
    IF kv.key \in DOMAIN field.TypeMap
      THEN convertType(Value(kv.val), field.TypeMap[kv.key])
      ELSE Conv(Value(kv.val), NoErr)

\* The elements of the array children i.. of kvs in document order, each with
\* the position of its array.
RECURSIVE Branches(_, _)
Branches(kvs, i) ==
    IF i > Len(kvs) THEN <<>>
    ELSE (IF IsArray(kvs[i].val)
            THEN [j \in 1..Len(kvs[i].val.elems) |-> [at |-> i, elem |-> kvs[i].val.elems[j]]]
            ELSE <<>>) \o Branches(kvs, i + 1)

\* An object of scalar children and array-of-scalars children, at least one
\* of each, whose scalars convert and whose output names are those of no
\* other child.
ScalarsAndArrays(field, r) ==
    /\ IsObject(r)
    /\ \A i \in 1..Len(r.elems) :
         \/ IsScalar(r.elems[i].val) /\ OutputValue(field, r.elems[i]).err = NoErr
         \/ IsArray(r.elems[i].val)
              /\ \A j \in 1..Len(r.elems[i].val.elems) : IsScalar(r.elems[i].val.elems[j])
    /\ \E i \in 1..Len(r.elems) : IsScalar(r.elems[i].val)
    /\ \E i \in 1..Len(r.elems) : IsArray(r.elems[i].val)
    /\ \A i, j \in 1..Len(r.elems) :
         (i # j /\ IsScalar(r.elems[i].val))
            => OutputName(field, r.elems[i].key) \notin
                 {r.elems[j].key, OutputName(field, r.elems[j].key)}

\* Metric m holds exactly the scalar children before position n, and under
\* key k (when wanted) value v.
HoldsScalarsBefore(m, field, kvs, n) ==
    \A i \in 1..Len(kvs) :
      IF IsScalar(kvs[i].val) /\ i < n
        THEN /\ HasField(m, OutputName(field, kvs[i].key))
             /\ SameValue(FieldValue(m, OutputName(field, kvs[i].key)),
                          OutputValue(field, kvs[i]).v)
        ELSE IsScalar(kvs[i].val) => ~HasField(m, OutputName(field, kvs[i].key))

RootAndBranches(field, r, out) ==
    LET kvs == r.elems
        bs == Branches(kvs, 1)
    IN /\ Len(out) = Len(bs) + 1
       /\ HoldsScalarsBefore(out[Len(out)], field, kvs, Len(kvs) + 1)
       /\ \A i \in 1..Len(kvs) : IsArray(kvs[i].val) => ~HasField(out[Len(out)], kvs[i].key)
       /\ \A q \in 1..Len(bs) :
            /\ HoldsScalarsBefore(out[q], field, kvs, bs[q].at)
            /\ HasField(out[q], kvs[bs[q].at].key)
            /\ SameValue(FieldValue(out[q], kvs[bs[q].at].key), Value(bs[q].elem))
            /\ \A i \in 1..Len(kvs) :
                 (IsArray(kvs[i].val) /\ i # bs[q].at) => ~HasField(out[q], kvs[i].key)

\* C6: flattening an object of scalar children and array-of-scalars children
\* yields the root metric with the scalar fields and no field for an array
\* key, and one more metric per array element holding the scalars that
\* precede the array and that element under the array's key; nothing added
\* to the root later, and no other element, is in a branch metric.
C6_RootAndIndependentBranches ==
    (/\ pc = "done"
     /\ Len(args.objectFields) = 1
     /\ ScalarsAndArrays(args.objectFields[1], QueryResult(1)))
        => (ret.err = NoErr /\ RootAndBranches(args.objectFields[1], QueryResult(1), ret.t))

\* The same with no null among the array elements.
FlattenWithoutNullElements ==
    (/\ pc = "done"
     /\ Len(args.objectFields) = 1
     /\ ScalarsAndArrays(args.objectFields[1], QueryResult(1))
     /\ \A q \in 1..Len(Branches(QueryResult(1).elems, 1)) :
          Branches(QueryResult(1).elems, 1)[q].elem.kind # "null")
        => (ret.err = NoErr /\ RootAndBranches(args.objectFields[1], QueryResult(1), ret.t))

RootPositions == {p \in 1..Len(ret.t) : ret.t[p].site = "root"}

\* The position in the output of the root metric of rule i.
RootOf(i) == CHOOSE p \in RootPositions : Cardinality({q \in RootPositions : q <= p}) = i

MatchesNothingOrEmpty(r) == ~Exists(r) \/ (IsObject(r) /\ r.elems = <<>>)

FieldNameOf(field) == IF field.Name = <<>> THEN Last(Split(field.Query)) ELSE field.Name

\* The row-group of rule i, before the merge.
RowGroup(i) == basicField(args.metricName, args.basicFields[i], args.doc).rows

DistinctFieldNames ==
    \A i, j \in 1..Len(args.basicFields) :
      i # j => FieldNameOf(args.basicFields[i]) # FieldNameOf(args.basicFields[j])

Largest(sizes) == CHOOSE n \in sizes : \A k \in sizes : k <= n

MatchingRules ==
    SelectSeq(args.basicFields,
              LAMBDA f : basicField(args.metricName, f, args.doc).rows # <<>>)

\* C4: with pairwise distinct field names the result has as many rows as the
\* largest row-group; every row holds that group's own field and value and
\* the field of every other rule that produced a row; a rule that matched
\* nothing adds no row and no field and leaves the result as it is without
\* that rule; if no rule matched the result is empty.
C4_LargestGroupWithAllFields ==
    (pc = "done" /\ ret.err = NoErr /\ DistinctFieldNames) =>
      LET n == Len(args.basicFields)
          max == Largest({Len(RowGroup(i)) : i \in 1..n} \cup {0})
      IN /\ Len(ret.t) = max
         /\ \A k \in 1..Len(ret.t), i \in 1..n :
              HasField(ret.t[k], FieldNameOf(args.basicFields[i])) <=> RowGroup(i) # <<>>
         /\ max > 0 =>
              \E i \in 1..n :
                /\ Len(RowGroup(i)) = max
                /\ \A k \in 1..max :
                     FieldValue(ret.t[k], FieldNameOf(args.basicFields[i]))
                       = FieldValue(RowGroup(i)[k], FieldNameOf(args.basicFields[i]))
         /\ ret.t = processBasicFields(args.metricName, MatchingRules, args.doc).t

\* Rule 1 yields three rows, rule 2 two, rule 3 matches nothing.
C4_Witness ==
    /\ pc = "done"
    /\ ret.err = NoErr
    /\ DistinctFieldNames
    /\ Len(args.basicFields) = 3
    /\ Len(RowGroup(1)) = 3
    /\ Len(RowGroup(2)) = 2
    /\ Len(RowGroup(3)) = 0
    /\ Len(ret.t) = 3
    /\ Len(ret.t[1].fields) = 2

(***************************************************************************)
(* Properties of Parse (Spec)                                              *)
(***************************************************************************)
\* The basic-field results of each RuleSet followed by its object-field
\* results, RuleSet after RuleSet.
RECURSIVE InConfigOrder(_, _)
InConfigOrder(configs, doc) ==
    IF configs = <<>> THEN <<>>
    ELSE processBasicFields(Head(configs).MetricName, Head(configs).BasicFields, doc).t
           \o processObjectFields(Head(configs).MetricName, Head(configs).ObjectFields, doc).t
           \o InConfigOrder(Tail(configs), doc)

\* C9: on input that is not valid JSON Parse fails and returns no metric, and
\* no rule of any RuleSet is ever evaluated; on valid input a successful Parse
\* returns, RuleSet by RuleSet in configuration order, the basic-field
\* results followed by the object-field results.
C9_InvalidRejectedValidInOrder ==
    /\ ~input.valid => (evals = 0 /\ t = <<>> /\ pc \in {"start", "done"})
    /\ (pc = "done" /\ ~input.valid) => err # NoErr
    /\ (pc = "done" /\ input.valid /\ err = NoErr) => t = InConfigOrder(Configs, input.doc)

\* Parse has rejected an invalid input with two RuleSets that have rules.
C9_Witness ==
    /\ pc = "done"
    /\ ~input.valid
    /\ err # NoErr
    /\ Len(Configs) = 2
    /\ \A i \in 1..2 : Configs[i].BasicFields # <<>> /\ Configs[i].ObjectFields # <<>>

====
